---- MODULE Spec2Model ----
(***************************************************************************)
(* DB8 Intelligence Agent (src/main.py): a FastAPI service over two        *)
(* Supabase tables, "users" (one admin row: user_plan, credits_remaining)  *)
(* and "properties" (listings with a status and captions), with a caption  *)
(* generation pipeline that calls a remote text-generation provider.       *)
(*                                                                         *)
(* Python values are modelled as follows.                                  *)
(*   str            a sequence of one-character strings                    *)
(*   Optional[x]    <<>> for None, <<x>> otherwise                         *)
(*   parsed JSON    a record [type, v]: object (v a function from the keys *)
(*                  present), array, string, number, null                  *)
(*   provider text  a sequence of tokens: "{", "}", "m" (the members of    *)
(*                  the object the provider wrote), "1" (a non-zero number *)
(*                  literal), "0" (the literal null), "p" (prose)          *)
(***************************************************************************)
EXTENDS Integers, Sequences, FiniteSets, TLC

(* ------------------------------- bounds ------------------------------- *)
MaxCalls == 2
MaxCredits == 1
MaxProps == 1
MaxCaptionLen == 2
MaxTags == 2
MaxTextLen == 4
MaxPad == 1

(* -------------------------- program constants ------------------------- *)
DefaultCredits == 20

VARIABLES
    users,            \* table "users": <<>> or <<row>> (single-admin MVP)
    properties,       \* table "properties": id -> row, DOMAIN = stored ids
    calls,            \* publish_property requests in flight, each at its own step
    responses,        \* history: how many publish responses went out, by status
    published,        \* history: the ids a publish_property call answered 200 for
    config,           \* AI_PROVIDER and the two API keys, read at start-up
    last,             \* the latest create_property request and its outcome
    pending,          \* a create_property request that has arrived (SpecGen)
    niche,            \* a prompt_by_niche call and its result (SpecNiche)
    initial_credits,  \* history: the balance before any request
    patch_log         \* history: what patch_me has written so far

vars == <<users, properties, calls, responses, published, config, last, pending, niche,
          initial_credits, patch_log>>

(* --------------------------- Python strings --------------------------- *)
IsSpace(c) == c \in {" ", "\n", "\t"}

RECURSIVE LStrip(_)
LStrip(s) ==
    IF s # <<>> /\ IsSpace(Head(s)) THEN LStrip(Tail(s)) ELSE s

RECURSIVE RStrip(_)
RStrip(s) ==
    IF s # <<>> /\ IsSpace(s[Len(s)]) THEN RStrip(SubSeq(s, 1, Len(s) - 1)) ELSE s

\* str.strip()
Strip(s) == RStrip(LStrip(s))

\* sep.join(xs), xs a sequence of strings
RECURSIVE Join(_, _)
Join(sep, xs) ==
    IF xs = <<>> THEN <<>>
    ELSE IF Len(xs) = 1 THEN xs[1]
    ELSE xs[1] \o sep \o Join(sep, Tail(xs))

\* all sequences over S of length at most n
RECURSIVE SeqsUpTo(_, _)
SeqsUpTo(S, n) ==
    IF n = 0 THEN {<<>>}
    ELSE LET shorter == SeqsUpTo(S, n - 1)
         IN shorter \cup {Append(s, x) : s \in shorter, x \in S}

None == <<>>
Some(x) == <<x>>

(* ---------------------------- parsed JSON ------------------------------ *)
Str(s) == [type |-> "string", v |-> s]
Num(n) == [type |-> "number", v |-> n]
Arr(xs) == [type |-> "array", v |-> xs]
Obj(f) == [type |-> "object", v |-> f]
Null == [type |-> "null", v |-> 0]
EmptyMembers == [k \in {} |-> Null]

\* bool(v) of a parsed JSON value
Truthy(v) ==
    CASE v.type = "object" -> DOMAIN v.v # {}
      [] v.type = "array" -> Len(v.v) > 0
      [] v.type = "string" -> Len(v.v) > 0
      [] v.type = "number" -> v.v # 0
      [] OTHER -> FALSE

\* d.get(key, default) of a parsed object
Get(d, key, default) == IF key \in DOMAIN d.v THEN d.v[key] ELSE default

\* str(v) for the values used as hashtags when it is no list
PyStr(v) ==
    CASE v.type = "string" -> v.v
      [] v.type = "number" -> <<ToString(v.v)>>
      [] OTHER -> <<"N", "o", "n", "e">>

\* json.dumps(v): the stored text is the serialised value
Dumps(v) == [json |-> v]

Return(v) == [kind |-> "return", value |-> v, exc |-> "none"]
Raise(e) == [kind |-> "raise", value |-> Null, exc |-> e]

(* ------------------------- users (lines 102-124) ----------------------- *)
DefaultUser == [user_plan |-> "credits", credits_remaining |-> DefaultCredits]

\* the table after get_or_create_user(); the user it returns is its head
get_or_create_user(tbl) == IF Len(tbl) > 0 THEN tbl ELSE <<DefaultUser>>

\* the table after update_user_credits(new_credits)
update_user_credits(tbl, new_credits) ==
    LET user == Head(get_or_create_user(tbl))
    IN <<[user EXCEPT !.credits_remaining = new_credits]>>

(* ------------------- caption pipeline (lines 236-294) ------------------ *)
\* json.loads(text); obj holds the members the token "m" stands for
JsonLoads(text, obj) ==
    IF text = <<"{", "}">> THEN Return(Obj(EmptyMembers))
    ELSE IF text = <<"{", "m", "}">> THEN Return(Obj(obj))
    ELSE IF text = <<"1">> THEN Return(Num(1))
    ELSE IF text = <<"0">> THEN Return(Null)
    ELSE Raise("JSONDecodeError")

\* re.search(r"\{.*\}", text, re.S): greedy, first "{" to last "}"
BraceSpan(text) ==
    LET opens == {i \in 1..Len(text) : text[i] = "{"}
        closes == {i \in 1..Len(text) : text[i] = "}"}
    IN IF opens = {} \/ closes = {} THEN None
       ELSE LET first == CHOOSE i \in opens : \A j \in opens : i <= j
                lastc == CHOOSE i \in closes : \A j \in closes : j <= i
            IN IF first < lastc THEN Some(SubSeq(text, first, lastc)) ELSE None

\* lines 256-263 and 281-287: strict parse, then the brace-span salvage
ParseContent(text, obj) ==
    LET strict == JsonLoads(text, obj)
    IN IF strict.kind = "return" THEN strict
       ELSE LET match == BraceSpan(text)
            IN IF match = None THEN Raise("HTTPException")
               ELSE JsonLoads(match[1], obj)

\* requests.post, the status check and the envelope lookup
Fetch(http) ==
    IF http.fault = "transport" THEN Raise("RequestException")
    ELSE IF http.status_code >= 400 THEN Raise("HTTPException")
    ELSE IF ~http.envelope_ok THEN Raise("KeyError")
    ELSE ParseContent(http.text, http.obj)

call_openai(cfg, http) ==
    IF ~cfg.openai_key THEN Raise("HTTPException") ELSE Fetch(http)

call_gemini(cfg, http) ==
    IF ~cfg.gemini_key THEN Raise("HTTPException") ELSE Fetch(http)

generate_caption_json(cfg, http) ==
    IF cfg.provider = "gemini" THEN call_gemini(cfg, http)
    ELSE call_openai(cfg, http)

(* ------------------- create_property (lines 402-450) ------------------- *)
\* lines 436-439: the hashtags as one string
HashtagsText(hashtags) ==
    IF hashtags.type = "array"
    THEN IF \A i \in 1..Len(hashtags.v) : hashtags.v[i].type = "string"
         THEN Return(Join(<<" ">>, [i \in 1..Len(hashtags.v) |-> hashtags.v[i].v]))
         ELSE Raise("TypeError")
    ELSE Return(PyStr(hashtags))

\* the concatenation without the final strip()
CaptionFinal_unstripped(caption, hashtags_text) ==
    caption \o <<"\n", "\n">> \o hashtags_text

\* line 440: (caption + "\n\n" + hashtags_text).strip()
CaptionFinal(caption, hashtags_text) ==
    Strip(caption \o <<"\n", "\n">> \o hashtags_text)

\* line 441: payload["title"] or ai_json.get("title") or payload["title"]
TitleOf(title, ai_json) ==
    LET ai_title == Get(ai_json, "title", Null)
    IN IF title # None /\ title[1] # <<>> THEN title
       ELSE IF Truthy(ai_title) THEN Some(PyStr(ai_title))
       ELSE title

\* lines 405-445: the row create_property hands to the store, or the
\* exception that leaves the handler before the insert
Payload(p, gen) ==
    LET caption_original == IF p.description = None THEN <<>> ELSE p.description[1]
        ai_json == IF gen.kind = "raise" THEN Null ELSE gen.value
    IN IF Truthy(ai_json)
       THEN IF ai_json.type # "object" THEN Raise("AttributeError")
            ELSE LET caption == Get(ai_json, "caption", Str(<<>>))
                     hashtags == Get(ai_json, "hashtags", Arr(<<>>))
                     text == HashtagsText(hashtags)
                 IN IF text.kind = "raise" THEN text
                    ELSE IF caption.type # "string" THEN Raise("TypeError")
                    ELSE Return([status |-> "pending",
                                 title |-> TitleOf(p.title, ai_json),
                                 caption_original |-> caption_original,
                                 caption_ai |-> Some(Dumps(ai_json)),
                                 caption_final |-> CaptionFinal(caption.v, text.value)])
       ELSE Return([status |-> "error",
                    title |-> p.title,
                    caption_original |-> caption_original,
                    caption_ai |-> None,
                    caption_final |-> caption_original])

PropIds == 1..MaxProps
EmptyTable == [i \in {} |-> 0]

\* uuid4(): the next unused id
NextId == CHOOSE i \in PropIds \ DOMAIN properties :
              \A j \in PropIds \ DOMAIN properties : i <= j

\* the response of POST /properties: lines 425-429 and 447-450
CreateResponse(p, http, insert_ok) ==
    LET gen == generate_caption_json(config, http)
        built == Payload(p, gen)
    IN [p |-> p, http |-> http, gen |-> gen,
        status_code |-> IF built.kind = "return" /\ insert_ok THEN 200 ELSE 500,
        exc |-> IF built.kind = "raise" THEN built.exc
                ELSE IF insert_ok THEN "none" ELSE "HTTPException",
        id |-> IF built.kind = "return" /\ insert_ok THEN NextId ELSE 0]

\* POST /properties; insert_ok: whether the store's insert returns the row
create_property(p, http, insert_ok) ==
    LET built == Payload(p, generate_caption_json(config, http))
    IN /\ PropIds \ DOMAIN properties # {}
       /\ IF built.kind = "return" /\ insert_ok
          THEN properties' = [i \in DOMAIN properties \cup {NextId} |->
                                 IF i = NextId THEN built.value ELSE properties[i]]
          ELSE properties' = properties
       /\ UNCHANGED <<users, calls, responses, published, config, niche, initial_credits, patch_log>>

(* ------------------- patch_property (lines 453-481) -------------------- *)
\* lines 459-470: the columns the update writes, as a function column -> value
PatchPayload(status, body) ==
    LET given == {k \in DOMAIN body : body[k] # None}
        query == status # None /\ status[1] # ""
        keys == given \cup (IF query THEN {"status"} ELSE {})
        column(k) == IF k = "description" THEN "caption_original" ELSE k
        value(k) == IF k = "status" /\ query THEN status[1] ELSE body[k][1]
    IN [c \in {column(k) : k \in keys} |->
          LET k == CHOOSE k \in keys : column(k) = c IN value(k)]

\* PATCH /properties/{property_id}
patch_property(property_id, status, body) ==
    LET payload == PatchPayload(status, body)
    IN /\ IF DOMAIN payload = {} \/ property_id \notin DOMAIN properties
          THEN properties' = properties
          ELSE properties' = [properties EXCEPT ![property_id] =
                   [c \in DOMAIN @ |-> IF c \in DOMAIN payload THEN payload[c] ELSE @[c]]]
       /\ UNCHANGED <<users, calls, responses, published, config, last, pending, niche,
                      initial_credits, patch_log>>

(* ----------------------- /me (lines 312-351) --------------------------- *)
Plans == {"credits", "pro"}

\* GET /me
get_me ==
    /\ users' = get_or_create_user(users)
    /\ UNCHANGED <<properties, calls, responses, published, config, last, pending, niche,
                   initial_credits, patch_log>>

\* lines 326-332: the columns patch_me writes
MePayload(data) ==
    [k \in {k \in DOMAIN data : data[k] # None} |-> data[k][1]]

\* PATCH /me; data: Optional credits_remaining and Optional user_plan
patch_me(data) ==
    LET user == Head(get_or_create_user(users))
        upd_payload == MePayload(data)
    IN /\ users' = <<[k \in DOMAIN user |->
                        IF k \in DOMAIN upd_payload THEN upd_payload[k] ELSE user[k]]>>
       /\ patch_log' =
            IF DOMAIN upd_payload = {} THEN patch_log
            ELSE IF "credits_remaining" \in DOMAIN upd_payload
                    /\ upd_payload["credits_remaining"] < 0
            THEN "negative"
            ELSE IF patch_log = "negative" THEN "negative" ELSE "written"
       /\ UNCHANGED <<properties, calls, responses, published, config, last, pending, niche, initial_credits>>

(* ------------------ publish_property (lines 484-518) ------------------- *)
Calls == 1..MaxCalls
Codes == {200, 403, 404}
Idle == [pc |-> "idle", property_id |-> 0, new_credits |-> None, debited |-> FALSE]
InFlight == {c \in Calls : calls[c].pc # "idle"}
Answered == responses[200] + responses[403] + responses[404]

\* the response leaves the server: the call's locals are gone
Respond(c, status_code) ==
    /\ calls' = [calls EXCEPT ![c] = Idle]
    /\ responses' = [responses EXCEPT ![status_code] = @ + 1]

\* the gate applied to every plan
OnCreditsPlan_every_plan(user) == user.user_plan \in {"credits", "pro"}

\* line 494
OnCreditsPlan(user) == user.user_plan = "credits"

\* the gate off by one: a balance of zero passes
OutOfCredits_below_zero(user) == user.credits_remaining < 0

\* line 495
OutOfCredits(user) == user.credits_remaining <= 0

\* line 498
NewCredits(user) == user.credits_remaining - 1

\* lines 492-498: read the user, then the gate on the copy just read
publish_read(c, property_id) ==
    /\ calls[c].pc = "idle"
    /\ \A d \in Calls : d < c => calls[d].pc # "idle"   \* slots are taken in order
    /\ Cardinality(InFlight) + Answered < MaxCalls
    /\ users' = get_or_create_user(users)
    /\ LET user == Head(users')
       IN IF OnCreditsPlan(user)
          THEN IF OutOfCredits(user)
               THEN Respond(c, 403)
               ELSE /\ calls' = [calls EXCEPT ![c] =
                         [pc |-> "debit", property_id |-> property_id,
                          new_credits |-> Some(NewCredits(user)), debited |-> FALSE]]
                    /\ responses' = responses
          ELSE /\ calls' = [calls EXCEPT ![c] =
                    [pc |-> "update", property_id |-> property_id,
                     new_credits |-> None, debited |-> FALSE]]
               /\ responses' = responses
    /\ UNCHANGED <<properties, published, config, last, pending, niche,
                   initial_credits, patch_log>>

\* line 499: update_user_credits(new_credits)
publish_debit(c) ==
    /\ calls[c].pc = "debit"
    /\ users' = update_user_credits(users, calls[c].new_credits[1])
    /\ calls' = [calls EXCEPT ![c] =
                    [@ EXCEPT !.pc = "update", !.new_credits = None, !.debited = TRUE]]
    /\ UNCHANGED <<properties, responses, published, config, last, pending, niche,
                   initial_credits, patch_log>>

\* lines 502-518: the status update and the response
publish_update(c) ==
    /\ calls[c].pc = "update"
    /\ LET property_id == calls[c].property_id
       IN IF property_id \in DOMAIN properties
          THEN /\ properties' = [properties EXCEPT ![property_id].status = "approved"]
               /\ published' = published \cup {property_id}
               /\ Respond(c, 200)
          ELSE /\ properties' = properties
               /\ published' = published
               /\ Respond(c, 404)
    /\ UNCHANGED <<users, config, last, pending, niche, initial_credits, patch_log>>

(* ------------------------ the service (Spec) ---------------------------- *)
Required == {"title", "caption", "bullets", "cta", "hashtags"}
Tags == {<<"#", "a">>}
FullObject ==
    [k \in Required |->
        CASE k = "hashtags" -> Arr(<<Str(<<"#", "a">>)>>)
          [] k = "bullets" -> Arr(<<Str(<<"x">>)>>)
          [] k = "title" -> Str(<<"A">>)
          [] k = "caption" -> Str(<<"B">>)
          [] OTHER -> Str(<<"C">>)]

HttpOk(text, obj) ==
    [fault |-> "none", status_code |-> 200, envelope_ok |-> TRUE,
     text |-> text, obj |-> obj]
HttpStatus(code) ==
    [fault |-> "none", status_code |-> code, envelope_ok |-> TRUE,
     text |-> <<>>, obj |-> EmptyMembers]
HttpTransport ==
    [fault |-> "transport", status_code |-> 0, envelope_ok |-> TRUE,
     text |-> <<>>, obj |-> EmptyMembers]
HttpBadEnvelope ==
    [fault |-> "none", status_code |-> 200, envelope_ok |-> FALSE,
     text |-> <<>>, obj |-> EmptyMembers]

Listing(description, title) == [description |-> description, title |-> title]
NoRequest ==
    [p |-> Listing(None, None), http |-> HttpTransport, gen |-> Raise("none"),
     status_code |-> 0, exc |-> "none", id |-> 0]
NoNiche == [pc |-> "idle", property_type |-> <<>>, property_standard |-> <<>>,
            out |-> [niche |-> "", padrao |-> <<>>]]

\* what the requests of Spec carry
ServiceListings == {Listing(Some(<<"D">>), None)}
ServiceHttp == {HttpOk(<<"{", "m", "}">>, FullObject)}
PatchStatuses == {"approved"}
PatchBodies ==
    [status : {None} \cup {Some(s) : s \in PatchStatuses},
     caption_final : {None},
     description : {None}]
MeData ==
    [credits_remaining : {None, Some(-1), Some(MaxCredits)},
     user_plan : {None} \cup {Some(pl) : pl \in Plans}]

Init ==
    /\ users \in {<<>>} \cup
         {<<[user_plan |-> "credits", credits_remaining |-> n]>> : n \in {0, MaxCredits}}
    /\ properties = EmptyTable
    /\ calls = [c \in Calls |-> Idle]
    /\ responses = [code \in Codes |-> 0]
    /\ published = {}
    /\ config = [provider |-> "openai", openai_key |-> TRUE, gemini_key |-> TRUE]
    /\ last = NoRequest
    /\ pending = None
    /\ niche = NoNiche
    /\ initial_credits =
         IF users = <<>> THEN DefaultCredits ELSE users[1].credits_remaining
    /\ patch_log = "none"

CreateProperty ==
    /\ \E p \in ServiceListings, http \in ServiceHttp, insert_ok \in BOOLEAN :
          create_property(p, http, insert_ok)
    /\ UNCHANGED <<last, pending>>
PatchProperty ==
    \E property_id \in PropIds,
       status \in {None} \cup {Some(s) : s \in PatchStatuses},
       body \in PatchBodies : patch_property(property_id, status, body)
PatchMe == \E data \in MeData : patch_me(data)
PublishRead == \E c \in Calls, property_id \in PropIds : publish_read(c, property_id)
PublishDebit == \E c \in Calls : publish_debit(c)
PublishUpdate == \E c \in Calls : publish_update(c)

Next ==
    \/ get_me
    \/ PatchMe
    \/ CreateProperty
    \/ PatchProperty
    \/ PublishRead
    \/ PublishDebit
    \/ PublishUpdate

Spec == Init /\ [][Next]_vars

(* -------------------- prompt engine (lines 130-206) -------------------- *)
\* str.lower() on the letters the checked inputs use
LowerTable == ("A" :> "a") @@ ("C" :> "c") @@ ("L" :> "l") @@ ("M" :> "m") @@ ("O" :> "o") @@ ("T" :> "t") @@ ("D" :> "d") @@ ("P" :> "p") @@ ("B" :> "b") @@ ("X" :> "x") @@ ("Ç" :> "ç") @@ ("É" :> "é")

Lower(s) == [i \in 1..Len(s) |-> IF s[i] \in DOMAIN LowerTable THEN LowerTable[s[i]] ELSE s[i]]

\* re.sub(r"\s+", " ", s)
RECURSIVE CollapseSpaces(_)
CollapseSpaces(s) ==
    IF s = <<>> THEN <<>>
    ELSE IF IsSpace(Head(s))
    THEN <<" ">> \o CollapseSpaces(LStrip(s))
    ELSE <<Head(s)>> \o CollapseSpaces(Tail(s))

\* lines 130-133
normalize(s) == CollapseSpaces(Lower(Strip(s)))

APARTAMENTO == <<"a", "p", "a", "r", "t", "a", "m", "e", "n", "t", "o">>
CASA == <<"c", "a", "s", "a">>
LANCAMENTO == <<"l", "a", "n", "c", "a", "m", "e", "n", "t", "o">>
LANCAMENTO_CEDILLA == <<"l", "a", "n", "ç", "a", "m", "e", "n", "t", "o">>
TERRENO == <<"t", "e", "r", "r", "e", "n", "o">>
OPORTUNIDADE == <<"o", "p", "o", "r", "t", "u", "n", "i", "d", "a", "d", "e">>
BAIXO == <<"b", "a", "i", "x", "o">>
MEDIO == <<"m", "e", "d", "i", "o">>
MEDIO_ACUTE == <<"m", "é", "d", "i", "o">>
LUXO == <<"l", "u", "x", "o">>

\* lines 149-206: the prompt is the fixed header, then the niche block named
\* here by its "Nicho:" line, with the standard interpolated into "Padrão:"
\* in the two blocks that carry one
prompt_by_niche(property_type, property_standard) ==
    LET pt0 == normalize(property_type)
        st0 == normalize(property_standard)
        pt == IF pt0 \in {LANCAMENTO_CEDILLA, LANCAMENTO} THEN LANCAMENTO ELSE pt0
        st == IF st0 \in {MEDIO_ACUTE, MEDIO} THEN MEDIO ELSE st0
    IN IF pt = APARTAMENTO THEN [niche |-> "APARTAMENTO", padrao |-> Some(st)]
       ELSE IF pt = CASA THEN [niche |-> "CASA", padrao |-> Some(st)]
       ELSE IF pt = LANCAMENTO THEN [niche |-> "LANCAMENTO", padrao |-> None]
       ELSE IF pt = TERRENO THEN [niche |-> "TERRENO", padrao |-> None]
       ELSE IF pt = OPORTUNIDADE THEN [niche |-> "OPORTUNIDADE", padrao |-> None]
       ELSE [niche |-> "IMOVEL", padrao |-> None]

\* a call of prompt_by_niche returns
PromptByNiche ==
    /\ niche.pc = "called"
    /\ niche' = [niche EXCEPT !.pc = "returned",
                    !.out = prompt_by_niche(niche.property_type, niche.property_standard)]
    /\ UNCHANGED <<users, properties, calls, responses, published, config, last,
                   pending, initial_credits, patch_log>>

(* ---------------- prompt_by_niche on its inputs (SpecNiche) ------------- *)
UpperTable == [c \in {LowerTable[u] : u \in DOMAIN LowerTable} |->
                 CHOOSE u \in DOMAIN LowerTable : LowerTable[u] = c]
Upper(s) == [i \in 1..Len(s) |-> IF s[i] \in DOMAIN UpperTable THEN UpperTable[s[i]] ELSE s[i]]
Capitalize(s) == IF s = <<>> THEN s ELSE Upper(<<Head(s)>>) \o Tail(s)
Pads == SeqsUpTo({" "}, MaxPad)
Spellings(words) ==
    {l \o c \o r : l \in Pads, r \in Pads,
                   c \in UNION {{word, Upper(word), Capitalize(word)} : word \in words}}
PropertyTypes ==
    Spellings({APARTAMENTO, CASA, LANCAMENTO, LANCAMENTO_CEDILLA, TERRENO, OPORTUNIDADE,
               <<>>, <<"l", "o", "f", "t">>, <<"c", "a", "s", "a", " ", "\t", "m", "i", "s", "t", "a">>})
PropertyStandards ==
    Spellings({BAIXO, MEDIO, MEDIO_ACUTE, LUXO, <<>>, <<"a", "l", "t", "o">>, <<"a", "l", "t", "o", "\t", " ", "l", "u", "x", "o">>})

InitNiche ==
    /\ users = <<>>
    /\ properties = EmptyTable
    /\ calls = [c \in Calls |-> Idle]
    /\ responses = [code \in Codes |-> 0]
    /\ published = {}
    /\ config = [provider |-> "openai", openai_key |-> TRUE, gemini_key |-> TRUE]
    /\ last = NoRequest
    /\ pending = None
    /\ niche \in [pc : {"called"}, property_type : PropertyTypes,
                  property_standard : PropertyStandards, out : {NoNiche.out}]
    /\ initial_credits = DefaultCredits
    /\ patch_log = "none"

NextNiche == PromptByNiche

SpecNiche == InitNiche /\ [][NextNiche]_vars

(* --------------- create_property on its inputs (SpecGen) ---------------- *)
Tokens == {"{", "}", "m", "1", "0", "p"}
Texts == SeqsUpTo(Tokens, MaxTextLen)
CaptionValues == {Str(c) : c \in SeqsUpTo({"B", " "}, MaxCaptionLen)} \cup {Num(5)}
HashtagValues ==
    {Arr(l) : l \in SeqsUpTo({Str(t) : t \in Tags}, MaxTags)} \cup {Str(<<"#", "a">>)}
ObjectOn(keys, caption, hashtags) ==
    [k \in keys |->
        CASE k = "caption" -> caption
          [] k = "hashtags" -> hashtags
          [] OTHER -> FullObject[k]]
Objects ==
    {ObjectOn(keys, caption, hashtags) :
        keys \in SUBSET Required \ {{}}, caption \in CaptionValues,
        hashtags \in HashtagValues}
GenHttp ==
    {HttpTransport, HttpStatus(500), HttpBadEnvelope}
    \cup {HttpOk(text, FullObject) : text \in Texts}
    \cup {HttpOk(<<"{", "m", "}">>, obj) : obj \in Objects}
GenListings ==
    {Listing(description, title) :
        description \in {None, Some(<<"D">>)}, title \in {None, Some(<<"T">>)}}
Configs ==
    {[provider |-> provider,
      openai_key |-> (provider # "openai" \/ key),
      gemini_key |-> (provider # "gemini" \/ key)] :
        provider \in {"openai", "gemini"}, key \in BOOLEAN}

InitGen ==
    /\ users = <<>>
    /\ properties = EmptyTable
    /\ calls = [c \in Calls |-> Idle]
    /\ responses = [code \in Codes |-> 0]
    /\ published = {}
    /\ config \in Configs
    /\ last = NoRequest
    /\ pending \in {Some([p |-> p, http |-> http]) : p \in GenListings, http \in GenHttp}
    /\ niche = NoNiche
    /\ initial_credits = DefaultCredits
    /\ patch_log = "none"

\* the request that arrived is served
ServeCreate ==
    /\ pending # None
    /\ \E insert_ok \in BOOLEAN :
          /\ create_property(pending[1].p, pending[1].http, insert_ok)
          /\ last' = CreateResponse(pending[1].p, pending[1].http, insert_ok)
    /\ pending' = None

NextGen == ServeCreate

SpecGen == InitGen /\ [][NextGen]_vars

(* ------------------------------- claims --------------------------------- *)
UserRow == users[1]
Balance == UserRow.credits_remaining

\* C1: on the credits plan, with no patch_me in between and every publish
\* finding its property, once no publish is in flight the balance is the
\* starting balance minus the number of publishes answered 200, so no more
\* publishes succeed than there were credits.
C1_BalanceCountsPublishes ==
    (/\ users # <<>>
     /\ patch_log = "none"
     /\ InFlight = {}
     /\ responses[404] = 0)
    => /\ Balance = initial_credits - responses[200]
       /\ responses[200] <= initial_credits

\* C2: a property has status "approved" only if a publish_property call for it
\* went through the gate and answered 200; create_property and patch_property
\* never put a property into that status.
C2_ApprovedOnlyThroughPublish ==
    \A id \in DOMAIN properties :
        properties[id].status = "approved" => id \in published

\* C8: a publish_property call that ends in an error (403 or 404) leaves the
\* balance as it was: after a single publish call that was answered with an
\* error, and no patch_me, the balance is the starting balance and nothing
\* was published.
C8_FailedPublishKeepsBalance ==
    (/\ users # <<>>
     /\ patch_log = "none"
     /\ InFlight = {}
     /\ Answered = 1
     /\ responses[200] = 0)
    => /\ Balance = initial_credits
       /\ published = {}

\* C9: with a starting balance >= 0 and no negative balance written by
\* patch_me, the balance is >= 0 in every reachable state, whatever the
\* interleaving of the publish_property calls' reads and writes.
C9_BalanceNeverNegative ==
    (users # <<>> /\ initial_credits >= 0 /\ patch_log # "negative") => Balance >= 0

\* C9 witness: two publish calls in flight have both written their debit and
\* the balance stands at zero.
C9_Witness ==
    /\ users # <<>>
    /\ patch_log = "none"
    /\ Balance = 0
    /\ Cardinality({c \in Calls : calls[c].pc = "update" /\ calls[c].debited}) = 2

\* C10: a publish_property call that reads a user whose plan is not "credits"
\* is never answered 403 and never writes the balance, whatever the balance
\* is; it goes straight to the status update, and the only thing that step
\* changes in the store is the status of its own property, to "approved".
C10_OtherPlanLeavesBalance ==
    [][/\ (/\ \/ \E c \in Calls : calls[c].pc = "idle" /\ calls'[c].pc # "idle"
              \/ responses'[403] # responses[403]
           /\ users'[1].user_plan # "credits")
          => /\ users' = users
             /\ responses' = responses
             /\ properties' = properties
             /\ \A c \in Calls :
                   calls'[c] # calls[c] => calls'[c].pc = "update" /\ ~calls'[c].debited
       /\ \A c \in Calls :
             (calls[c].pc = "update" /\ ~calls[c].debited /\ calls'[c].pc = "idle")
             => /\ users' = users
                /\ responses'[403] = responses[403]
                /\ DOMAIN properties' = DOMAIN properties
                /\ \A id \in DOMAIN properties :
                      properties'[id] =
                          IF id = calls[c].property_id
                          THEN [properties[id] EXCEPT !.status = "approved"]
                          ELSE properties[id]
      ]_vars

\* C10 witness: a publish call has passed the gate without a debit while the
\* plan is "pro" and the balance is negative, and its property is stored.
C10_Witness ==
    /\ users # <<>>
    /\ UserRow.user_plan = "pro"
    /\ Balance < 0
    /\ \E c \in Calls :
          /\ calls[c].pc = "update"
          /\ ~calls[c].debited
          /\ calls[c].property_id \in DOMAIN properties

Served == last.status_code # 0

\* whether generate_caption_json failed or returned something unusable
Unusable(gen) ==
    gen.kind = "raise" \/ gen.value.type # "object" \/ ~Truthy(gen.value)

\* C3: when generation fails or returns an unusable value, create_property
\* still stores the listing, with status "error", no caption_ai and the
\* original description as caption_final; the request fails only when the
\* store's insert returns no row.
C3_GenerationFailureStillCreates ==
    (Served /\ Unusable(last.gen))
    => IF last.status_code = 200
       THEN /\ last.id \in DOMAIN properties
            /\ properties[last.id].status = "error"
            /\ properties[last.id].caption_ai = None
            /\ properties[last.id].caption_final =
                  (IF last.p.description = None THEN <<>> ELSE last.p.description[1])
       ELSE last.exc = "HTTPException"

\* C4: no stored caption_ai comes from a parsed object that lacks one of the
\* five required fields.
C4_MissingFieldNeverStored ==
    \A id \in DOMAIN properties :
        properties[id].caption_ai # None
        => Required \subseteq DOMAIN properties[id].caption_ai[1].json.v

\* C5: a generate call ends with a parsed value or with the typed failure the
\* service raises itself (HTTPException); no other exception leaves it.
C5_GenerateEndsTyped ==
    Served => (last.gen.kind = "return" \/ last.gen.exc = "HTTPException")

\* the stored object of a listing whose caption is a string and whose
\* hashtags are a list of strings
HasCaptionAndTags(id) ==
    /\ properties[id].caption_ai # None
    /\ LET obj == properties[id].caption_ai[1].json.v
       IN /\ {"caption", "hashtags"} \subseteq DOMAIN obj
          /\ obj["caption"].type = "string"
          /\ obj["hashtags"].type = "array"
StoredCaption(id) == properties[id].caption_ai[1].json.v["caption"].v
StoredTags(id) ==
    LET tags == properties[id].caption_ai[1].json.v["hashtags"].v
    IN [i \in 1..Len(tags) |-> tags[i].v]
Concatenated(id) == StoredCaption(id) \o <<"\n", "\n">> \o Join(<<" ">>, StoredTags(id))

\* r is s without its leading and trailing whitespace
IsStripOf(r, s) ==
    \E i \in 0..Len(s), j \in 0..Len(s) :
        /\ i <= j
        /\ r = SubSeq(s, i + 1, j)
        /\ \A k \in 1..i : IsSpace(s[k])
        /\ \A k \in (j + 1)..Len(s) : IsSpace(s[k])
        /\ r # <<>> => ~IsSpace(r[1]) /\ ~IsSpace(r[Len(r)])

\* C6 as claimed: caption_final is the caption, a blank line and the hashtags
\* joined by single spaces, for every caption and every hashtag sequence.
C6_CaptionFinalIsConcatenation ==
    \A id \in DOMAIN properties :
        HasCaptionAndTags(id) => properties[id].caption_final = Concatenated(id)

\* C6 as amended: caption_final is that concatenation with its leading and
\* trailing whitespace removed; it is the concatenation itself when the
\* caption starts with a non-blank character and the joined hashtags end
\* with one.
C6_CaptionFinalIsStrippedConcatenation ==
    \A id \in DOMAIN properties :
        HasCaptionAndTags(id)
        => /\ IsStripOf(properties[id].caption_final, Concatenated(id))
           /\ (/\ StoredCaption(id) # <<>>
               /\ ~IsSpace(StoredCaption(id)[1])
               /\ StoredTags(id) # <<>>)
              => properties[id].caption_final = Concatenated(id)

\* C6 witness: a listing stored from a caption with a leading blank and no
\* hashtags; its caption_final is the bare caption text.
C6_Witness ==
    \E id \in DOMAIN properties :
        /\ HasCaptionAndTags(id)
        /\ StoredCaption(id) = <<" ", "B">>
        /\ StoredTags(id) = <<>>
        /\ properties[id].caption_final = <<"B">>

Niches == {"APARTAMENTO", "CASA", "LANCAMENTO", "TERRENO", "OPORTUNIDADE", "IMOVEL"}

\* C7: prompt_by_niche returns one prompt for every input; for "apartamento"
\* and "casa" a standard other than "luxo" and "medio" gives the prompt that
\* "baixo" gives, and an unknown property_type gives the generic prompt.
C7_UnknownStandardIsEntryTier ==
    niche.pc = "returned"
    => LET pt == normalize(niche.property_type)
           st == normalize(niche.property_standard)
       IN /\ niche.out.niche \in Niches
          /\ (pt \in {APARTAMENTO, CASA} /\ st \notin {LUXO, MEDIO, MEDIO_ACUTE})
             => niche.out = prompt_by_niche(pt, BAIXO)
          /\ pt \notin {APARTAMENTO, CASA, LANCAMENTO, LANCAMENTO_CEDILLA, TERRENO,
                        OPORTUNIDADE}
             => niche.out.niche = "IMOVEL"

====
